---- MODULE Spec2Model ----
(***************************************************************************)
(* A model of DATA_MCP.py: the registry of IPython sessions                *)
(* (IPythonSessionManager), the session objects (IPythonSession) and the   *)
(* MCP tool functions that work on them.                                   *)
(*                                                                         *)
(* A tool call is run by a thread.  create_ipython_session,                *)
(* delete_ipython_session and execute_code are split into steps where the  *)
(* code takes or releases the manager lock and where                       *)
(* IPythonSession.execute reads and writes the fields of the session       *)
(* object, so that the interleavings of two such calls are those of the    *)
(* code; a call of another tool is one step.  A thread goes                *)
(* idle -> (steps of the tool) -> done -> idle; its response is in resp[t] *)
(* while it is "done".                                                     *)
(***************************************************************************)
EXTENDS Integers, Sequences, FiniteSets, TLC

(* ------------------------------ bounds -------------------------------- *)

\* The time the runs are followed for: a session construction, an execution
\* and a load of an existing file read the clock (datetime.now(),
\* time.time()), and the clock has moved on at the next reading.  A run is
\* followed up to the time `horizon', which is MaxTime, or MaxTime past the
\* HistoryLimit-th reading where the run is to fill the history.
MaxTime == 3

\* Largest counter that load_*_file may append to an automatic variable name.
MaxAutoName == 0

(* ----------------------------- constants ------------------------------ *)

\* len(self.history) > 100 : the history keeps the last 100 entries.
HistoryLimit == 100

None == "None"

Threads == {"t1", "t2"}

\* uuid.uuid4().hex[:8]
UuidHex8 == {"a1b2c3d4"}

\* Session ids a caller supplies; the second has the shape of a generated id.
SessionIds == {"s1", "session_a1b2c3d4"}

\* Code cells submitted to execute_code.
Cells == {"x = 1", "print(x); x", "1 +", "Bad()"}

\* Files: a path that does not exist, an empty file with an Excel suffix, a
\* GB18030 text file whose rows have different numbers of fields, and a
\* well-formed UTF-8 CSV file.
Paths == {"missing.csv", "empty.xlsx", "ragged.dat", "data.csv"}

LoadTools == {"load_csv_file", "load_excel_file", "load_json_file"}

\* Inspection tools that take a variable name.
VarTools == {"get_dataframe_info", "preview_dataframe", "get_dataframe_summary",
             "get_variable_info", "sample_column_data"}

\* Inspection tools that take the session id only.
SessionTools == {"get_session_status", "list_dataframes", "check_memory_usage"}

\* The library configurations the module can be imported in (the flags are
\* set once, at import): everything installed, no IPython, no pandas/numpy
\* (and so no matplotlib), no Excel engine.
EnvConfigs ==
  { [ipython |-> TRUE,  pandas |-> TRUE,  excel |-> TRUE,  matplotlib |-> TRUE],
    [ipython |-> FALSE, pandas |-> TRUE,  excel |-> TRUE,  matplotlib |-> TRUE],
    [ipython |-> TRUE,  pandas |-> FALSE, excel |-> TRUE,  matplotlib |-> FALSE],
    [ipython |-> TRUE,  pandas |-> TRUE,  excel |-> FALSE, matplotlib |-> TRUE] }

VARIABLES
  avail,     \* IPYTHON_AVAILABLE, PANDAS_AVAILABLE, EXCEL_AVAILABLE (+ matplotlib importable)
  sessions,  \* IPythonSessionManager.sessions : session id -> session object
  heap,      \* the live IPythonSession objects : object -> its fields
  lock,      \* IPythonSessionManager.lock : the thread holding it, or None
  now,       \* the system clock, read by datetime.now() and time.time()
  pc,        \* where each thread is in its call
  call,      \* the tool and the arguments of each thread's call
  ref,       \* the session object a thread got from get_session (0: none)
  loc,       \* the other locals of the call
  io,        \* the file operations the call has performed
  resp,      \* the dictionary the call returned
  deleted,   \* history: the ids deleted with success and not created since
  horizon    \* the time up to which the run is followed

vars == <<avail, sessions, heap, lock, now, pc, call, ref, loc, io, resp, deleted,
          horizon>>

NoCall == [tool |-> None]
NoLoc  == [tag |-> None]
NoResp == [tag |-> None]

(* --------------------------- small helpers ---------------------------- *)

Range(f) == {f[k] : k \in DOMAIN f}

Remove(f, k) == [j \in DOMAIN f \ {k} |-> f[j]]

Bind(f, k, v) == [j \in DOMAIN f \cup {k} |-> IF j = k THEN v ELSE f[j]]

Last(s, n) == IF Len(s) > n THEN SubSeq(s, Len(s) - n + 1, Len(s)) ELSE s

\* An object nothing refers to any more is gone: the heap keeps the objects
\* the registry or a running call refers to.
Collect(h, sess, refs) ==
  [o \in {p \in DOMAIN h : p \in Range(sess) \/ p \in Range(refs)} |-> h[o]]

\* A new object is none of the live ones: the objects are numbered by the
\* time of their construction.
NewObject == now + 1

Tick == now < horizon /\ now' = now + 1

(* --------------------------- IPythonSession --------------------------- *)

\* The names bound by the cell of _auto_import_libraries; the cell stops at
\* its first line when pandas cannot be imported.
AutoImportNs ==
  IF avail.pandas
    THEN [n \in {"pd", "np", "json", "os", "sys", "warnings", "Path"} |->
            IF n = "Path" THEN "type" ELSE "module"]
    ELSE [n \in {} |-> "module"]

\* The namespace after __init__: "import matplotlib" and, with auto_import,
\* the import cell.
InitialNs(auto_import) ==
  (IF avail.matplotlib THEN [n \in {"matplotlib"} |-> "module"]
                       ELSE [n \in {} |-> "module"])
  @@ (IF auto_import THEN AutoImportNs ELSE [n \in {} |-> "module"])

\* One shell, InteractiveShell.instance(), for all the sessions.
SetNsShared(h, o, ns) == [p \in DOMAIN h |-> [h[p] EXCEPT !.ns = ns]]

\* self.shell = InteractiveShell(): a shell, and so a user namespace, of the
\* session's own; what a call binds or deletes there changes that session.
SetNs(h, o, ns) == [h EXCEPT ![o].ns = ns]

\* IPythonSession.__init__
NewSession(auto_import) ==
  [ created_at      |-> now,
    last_used       |-> now,
    execution_count |-> 0,
    history         |-> << >>,
    ns              |-> InitialNs(auto_import) ]

\* What shell.run_cell(code) does to a namespace, and the ExecutionResult of
\* IPython it returns: the value of a last expression, error_in_exec (an
\* exception raised by the code), error_before_exec (the code did not
\* compile).  A traceback is printed on stdout.
RunCell(ns, code) ==
  LET ok(out, res) == [ns |-> ns, stdout |-> out, stderr |-> "", result |-> res,
                       error_in_exec |-> None, error_before_exec |-> None]
      nameError    == [ns |-> ns, stdout |-> "NameError: name 'x' is not defined\n",
                       stderr |-> "", result |-> None,
                       error_in_exec |-> "name 'x' is not defined",
                       error_before_exec |-> None]
  IN CASE code = "x = 1"    -> [ok("", None) EXCEPT !.ns = Bind(ns, "x", "int")]
       [] code = "print(x); x" -> IF "x" \in DOMAIN ns THEN ok("1\n", "x") ELSE nameError
       [] code = "1 +"      -> [ns |-> ns, stdout |-> "SyntaxError: invalid syntax\n",
                                stderr |-> "", result |-> None,
                                error_in_exec |-> None,
                                error_before_exec |-> "invalid syntax"]
       [] OTHER             -> ok("", "Bad")   \* an object whose __repr__ raises

\* _format_result / _format_result_direct: the text of the result object;
\* Raised when str() of the object raises (both fall back to str()).
Raised == "<raised>"

FormatResult(ns, obj) ==
  CASE obj = None  -> None
    [] obj = "x"   -> "1"
    [] obj = "Bad" -> Raised
    [] OTHER       -> obj

(* ------------------------------ files --------------------------------- *)

\* os.path.exists(file_path)
Exists(path) == path # "missing.csv"

\* Path(file_path).suffix.lower()
Suffix(path) ==
  CASE path = "empty.xlsx" -> ".xlsx"
    [] path = "ragged.dat" -> ".dat"
    [] OTHER               -> ".csv"

\* Path(file_path).stem
Stem(path) ==
  CASE path = "missing.csv" -> "missing"
    [] path = "data.csv"    -> "data"
    [] path = "ragged.dat"  -> "ragged"
    [] OTHER                -> "empty"

\* What the file holds: a CSV table, rows that are no table, or nothing.
Content(path) ==
  CASE path = "data.csv"   -> "csv"
    [] path = "ragged.dat" -> "ragged"
    [] OTHER               -> "empty"

\* The first of 'utf-8', 'gb18030', 'gbk', 'gb2312', 'latin-1' the file can
\* be read in.
Encoding(path) == IF path = "ragged.dat" THEN "gb18030" ELSE "utf-8"

\* DataLoader.detect_encoding: the file is opened with one encoding after
\* the other until its first 1024 characters can be read.
DetectEncoding(path) ==
  IF Encoding(path) = "utf-8" THEN <<"open">> ELSE <<"open", "open">>

Loaded(ops)        == [ok |-> TRUE,  exc |-> None, msg |-> None, io |-> ops]
Failed(e, m, ops)  == [ok |-> FALSE, exc |-> e,    msg |-> m,    io |-> ops]
NotFoundError(path) ==
  Failed("FileNotFoundError", "File not found: " \o path, <<"os.path.exists">>)

\* DataLoader.load_csv with encoding "auto": detect_encoding opens the file,
\* then pd.read_csv parses it (EmptyDataError and ParserError are ValueErrors).
LoadCsv(path) ==
  IF ~Exists(path) THEN NotFoundError(path)
  ELSE LET ops == <<"os.path.exists">> \o DetectEncoding(path) \o <<"pd.read_csv">>
       IN CASE Content(path) = "csv"   -> Loaded(ops)
            [] Content(path) = "empty" -> Failed("ValueError", "No columns to parse from file", ops)
            [] OTHER                   -> Failed("ValueError", "Error tokenizing data", ops)

\* load_excel with the fallback loop entered for every suffix.
ExcelAttemptsAll(path) == <<"pd.read_excel", "pd.read_excel", "pd.read_excel">>

\* The engines DataLoader.load_excel hands to pd.read_excel, in order, for a
\* file no engine can read: the one chosen from the suffix and, when the
\* suffix is neither .xlsx nor .xls, openpyxl and xlrd after it.
ExcelAttempts(path) ==
  IF Suffix(path) \in {".xlsx", ".xls"}
    THEN <<"pd.read_excel">>
    ELSE <<"pd.read_excel", "pd.read_excel", "pd.read_excel">>

\* DataLoader.load_excel: none of the files is a workbook, so every read
\* fails and the first exception is raised again.
LoadExcel(path) ==
  IF ~avail.excel
    THEN Failed("ImportError", "Excel support libraries are required. Install with: pip install openpyxl xlrd", << >>)
  ELSE IF ~Exists(path) THEN NotFoundError(path)
  ELSE IF Suffix(path) = ".xlsx"
    THEN Failed("BadZipFile", "File is not a zip file",
                <<"os.path.exists">> \o ExcelAttempts(path))
    ELSE Failed("ValueError",
                "Excel file format cannot be determined, you must specify an engine manually.",
                <<"os.path.exists">> \o ExcelAttempts(path))

\* load_json without its os.path.exists test.
LoadJsonUnchecked(path) ==
  Failed("ValueError", "Expected object or value", <<"pd.read_json">>)

\* DataLoader.load_json: pd.read_json rejects a file that is not JSON.
LoadJson(path) ==
  IF ~Exists(path) THEN NotFoundError(path)
  ELSE Failed("ValueError", "Expected object or value", <<"os.path.exists", "pd.read_json">>)

DataLoader(tool, path) ==
  CASE tool = "load_csv_file"   -> LoadCsv(path)
    [] tool = "load_excel_file" -> LoadExcel(path)
    [] OTHER                    -> LoadJson(path)

\* The name load_*_file gives the DataFrame when the caller names none:
\* df_<stem>, then df_<stem>_1, df_<stem>_2, ... until the name is free.
AutoVarName(base, k) == IF k = 0 THEN "df_" \o base ELSE "df_" \o base \o "_" \o ToString(k)

AutoCounter(base, variables) ==
  CHOOSE k \in 0..Cardinality(variables) :
    /\ AutoVarName(base, k) \notin variables
    /\ \A j \in 0..Cardinality(variables) : j < k => AutoVarName(base, j) \in variables

\* The message of the last "except Exception" of a load tool.
LoadFailure(tool, msg) ==
  CASE tool = "load_csv_file"   -> "Failed to load CSV file: " \o msg
    [] tool = "load_excel_file" -> "Failed to load Excel file: " \o msg
    [] OTHER                    -> "Failed to load JSON file: " \o msg

(* --------------------------- the tool calls --------------------------- *)

CreateCalls ==
  [tool : {"create_ipython_session"}, session_id : SessionIds \cup {None},
   auto_import : BOOLEAN]

DeleteCalls == [tool : {"delete_ipython_session"}, session_id : SessionIds]

\* execute_code: the cells that compile in the full mode, the printing cell
\* also with expression_only; capture_output has its default.  (ExecModeCalls
\* has every cell in both modes.)
ExecCalls ==
  [tool : {"execute_code"}, session_id : SessionIds, code : Cells \ {"1 +"},
   capture_output : {TRUE}, expression_only : {FALSE}]
  \cup [tool : {"execute_code"}, session_id : SessionIds, code : {"print(x); x"},
        capture_output : {TRUE}, expression_only : {TRUE}]

HistoryCalls ==
  [tool : {"get_execution_history"}, session_id : SessionIds, limit : {1},
   include_output : BOOLEAN]

\* The load tools: every tool on every file under an automatic name,
\* load_csv_file also under the name x.
LoadCalls ==
  [tool : LoadTools, session_id : SessionIds, file_path : Paths, variable_name : {None}]
  \cup [tool : {"load_csv_file"}, session_id : SessionIds,
        file_path : {"ragged.dat", "data.csv"}, variable_name : {"x"}]

\* The inspection tools: on the DataFrame an automatic name gives, on the
\* integer x, with a method and a column there is not.
InspectCalls ==
  [tool : SessionTools, session_id : SessionIds]
  \cup [tool : VarTools, session_id : SessionIds, variable_name : {"df_data"},
        column_name : {"a"}, method : {"head"}]
  \cup [tool : {"get_dataframe_info"}, session_id : SessionIds, variable_name : {"x"},
        column_name : {"a"}, method : {"head"}]
  \cup [tool : {"preview_dataframe", "sample_column_data"}, session_id : SessionIds,
        variable_name : {"df_data"}, column_name : {"a"}, method : {"bogus"}]
  \cup [tool : {"sample_column_data"}, session_id : SessionIds,
        variable_name : {"df_data"}, column_name : {"zz"}, method : {"head"}]

\* clear_variables: nothing named, x named, everything with and without
\* keep_imports.
ClearCalls ==
  [tool : {"clear_variables"}, session_id : SessionIds,
   variable_names : {<< >>, <<"x">>}, clear_all : {FALSE}, keep_imports : {TRUE}]
  \cup [tool : {"clear_variables"}, session_id : SessionIds,
        variable_names : {<< >>}, clear_all : {TRUE}, keep_imports : BOOLEAN]

\* The calls of the tools that take a session id and look the session up.
SessionCalls == ExecCalls \cup HistoryCalls \cup LoadCalls \cup InspectCalls \cup ClearCalls

\* The calls two concurrent callers make.
ConcCreateCalls ==
  [tool : {"create_ipython_session"}, session_id : {"s1"}, auto_import : {FALSE}]

ConcDeleteCalls == [tool : {"delete_ipython_session"}, session_id : {"s1"}]

\* execute_code on "s1", every cell in both modes and with both values of
\* capture_output.
ExecModeCalls ==
  [tool : {"execute_code"}, session_id : {"s1"}, code : Cells,
   capture_output : BOOLEAN, expression_only : BOOLEAN]

\* execute_code on "s1" with the assignment, in both modes.
HistExecCalls ==
  [tool : {"execute_code"}, session_id : {"s1"}, code : {"x = 1"},
   capture_output : {TRUE}, expression_only : BOOLEAN]

\* get_execution_history on "s1": limits below, at and above zero, and above
\* the number of entries a history keeps.
HistQueryCalls ==
  [tool : {"get_execution_history"}, session_id : {"s1"},
   limit : {-1, 0, 1, 3, HistoryLimit + 1}, include_output : BOOLEAN]

ConcExecCalls ==
  [tool : {"execute_code"}, session_id : {"s1"}, code : {"x = 1", "print(x); x"},
   capture_output : {TRUE}, expression_only : {FALSE}]

SessionNotFound(session_id) == "Session " \o session_id \o " not found"

ErrorResponse(msg) == [success |-> FALSE, error |-> msg]

(* ----------------------- IPythonSessionManager ------------------------ *)

\* The methods of the manager without their "with self.lock".
Unlocked == TRUE

\* "with self.lock": the lock can be taken when no thread holds it.
LockFree == lock = None

\* create_session: session_id = f"session_{uuid.uuid4().hex[:8]}"
GeneratedId(h) == "session_" \o h

\* create_session without its membership test.
CreateFindsNothing(session_id) == FALSE

\* create_session: if session_id in self.sessions
CreateFinds(session_id) == session_id \in DOMAIN sessions

\* get_session: if session_id not in self.sessions
GetFinds(session_id) == session_id \in DOMAIN sessions

\* delete_session: if session_id in self.sessions
DeleteFinds(session_id) == session_id \in DOMAIN sessions

\* self.sessions[session_id] = session
Store(session_id, o) == Bind(sessions, session_id, o)

\* delete_session returning True without the del.
DeleteNothing(session_id) == sessions

\* self.sessions.clear() in the place of the del.
DeleteAll(session_id) == [k \in {} |-> 0]

\* del self.sessions[session_id]
Delete(session_id) == Remove(sessions, session_id)

Idle(t) == pc[t] = "idle"

\* A call that ends: its response is set and its references are dropped.
Done(t, c, r, ops) ==
  /\ pc' = [pc EXCEPT ![t] = "done"]
  /\ call' = [call EXCEPT ![t] = c]
  /\ resp' = [resp EXCEPT ![t] = r]
  /\ io' = [io EXCEPT ![t] = ops]
  /\ ref' = [ref EXCEPT ![t] = 0]
  /\ loc' = [loc EXCEPT ![t] = NoLoc]

\* create_ipython_session without IPython: refused before the manager is used.
CreateUnavailable(t, calls) ==
  /\ Idle(t)
  /\ ~avail.ipython
  /\ \E c \in calls :
       Done(t, c, ErrorResponse("IPython is not available. Please install with: pip install ipython"), << >>)
  /\ UNCHANGED <<avail, sessions, heap, lock, now>>

\* create_session, first half: the lock is taken, the id is generated when
\* none is given, and the id is looked for.  An id that is found raises
\* ValueError, which leaves the "with" block and is reported by the tool.
CreateEnter(t, calls) ==
  /\ Idle(t)
  /\ avail.ipython
  /\ LockFree
  /\ \E c \in calls, h \in UuidHex8 :
       LET id == IF c.session_id = None THEN GeneratedId(h) ELSE c.session_id
       IN IF CreateFinds(id)
            THEN /\ Done(t, c, ErrorResponse("Failed to create session: Session " \o id \o " already exists"), << >>)
                 /\ UNCHANGED lock
            ELSE /\ now < horizon
                 /\ lock' = t
                 /\ pc' = [pc EXCEPT ![t] = "create_insert"]
                 /\ call' = [call EXCEPT ![t] = c]
                 /\ loc' = [loc EXCEPT ![t] = [tag |-> "create", id |-> id]]
                 /\ UNCHANGED <<resp, io, ref>>
  /\ UNCHANGED <<avail, sessions, heap, now>>

\* create_session, second half: the session is constructed and stored under
\* the id, the lock is released; create_ipython_session builds its response.
CreateInsert(t) ==
  /\ pc[t] = "create_insert"
  /\ Tick
  /\ LET id == loc[t].id
         o  == NewObject
         c  == call[t]
     IN /\ sessions' = Store(id, o)
        /\ heap' = Collect(Bind(heap, o, NewSession(c.auto_import)), sessions', ref)
        /\ Done(t, c,
                [success |-> TRUE, session_id |-> id,
                 message |-> "IPython session " \o id \o " created successfully",
                 auto_imported |-> IF c.auto_import
                                     THEN <<"pandas", "numpy", "json", "os", "sys", "pathlib">>
                                     ELSE << >>],
                << >>)
  /\ lock' = None
  /\ UNCHANGED avail

\* delete_session, first half: the lock is taken and the id looked for; an
\* id that is not found returns False.
DeleteEnter(t, calls) ==
  /\ Idle(t)
  /\ LockFree
  /\ \E c \in calls :
       IF DeleteFinds(c.session_id)
         THEN /\ lock' = t
              /\ pc' = [pc EXCEPT ![t] = "delete_del"]
              /\ call' = [call EXCEPT ![t] = c]
              /\ UNCHANGED <<resp, io, ref, loc>>
         ELSE /\ Done(t, c, ErrorResponse(SessionNotFound(c.session_id)), << >>)
              /\ UNCHANGED lock
  /\ UNCHANGED <<avail, sessions, heap, now>>

\* delete_session, second half: del self.sessions[session_id] (a KeyError
\* when the id is gone), the lock is released.
DeleteRemove(t) ==
  /\ pc[t] = "delete_del"
  /\ LET id == call[t].session_id
     IN IF id \in DOMAIN sessions
          THEN /\ sessions' = Delete(id)
               /\ heap' = Collect(heap, sessions', ref)
               /\ Done(t, call[t],
                       [success |-> TRUE, message |-> "Session " \o id \o " deleted successfully"],
                       << >>)
          ELSE /\ UNCHANGED <<sessions, heap>>
               /\ Done(t, call[t], ErrorResponse("Failed to delete session: '" \o id \o "'"), << >>)
  /\ lock' = None
  /\ UNCHANGED <<avail, now>>

\* list_sessions, under the lock, and list_ipython_sessions.
SessionInfo(session_id) ==
  LET s == heap[sessions[session_id]]
  IN [session_id |-> session_id, status |-> "active", created_at |-> s.created_at,
      last_used |-> s.last_used, execution_count |-> s.execution_count,
      variable_count |-> Cardinality(DOMAIN s.ns)]

ListSessions(t) ==
  /\ Idle(t)
  /\ LockFree
  /\ Done(t, [tool |-> "list_ipython_sessions"],
          [success |-> TRUE,
           sessions |-> {SessionInfo(id) : id \in DOMAIN sessions},
           total_sessions |-> Cardinality(DOMAIN sessions)],
          << >>)
  /\ UNCHANGED <<avail, sessions, heap, lock, now>>

(* ----------------------- session-scoped tools ------------------------- *)

\* The checks load_*_file makes before it looks the session up.
LibraryCheck(c) ==
  IF c.tool \in LoadTools /\ ~avail.pandas
    THEN "pandas is not available. Please install with: pip install pandas numpy"
  ELSE IF c.tool = "load_excel_file" /\ ~avail.excel
    THEN "Excel support libraries are not available. Please install with: pip install openpyxl xlrd"
  ELSE None

\* A load tool whose library is missing returns at once.
LibraryMissing(t, calls) ==
  /\ Idle(t)
  /\ \E c \in calls :
       /\ LibraryCheck(c) # None
       /\ Done(t, c, ErrorResponse(LibraryCheck(c)), << >>)
  /\ UNCHANGED <<avail, sessions, heap, lock, now>>

\* The load tools calling the DataLoader before get_session.
LoadBeforeLookup(t, calls) ==
  /\ Idle(t)
  /\ LockFree
  /\ \E c \in calls :
       /\ LibraryCheck(c) = None
       /\ ~GetFinds(c.session_id)
       /\ LET r == IF c.tool \in LoadTools THEN DataLoader(c.tool, c.file_path)
                                           ELSE Loaded(<< >>)
          IN Done(t, c, ErrorResponse(IF r.ok THEN SessionNotFound(c.session_id) ELSE r.msg), r.io)
  /\ UNCHANGED <<avail, sessions, heap, lock, now>>

\* manager.get_session(session_id), under the lock, for an id that is not
\* registered: ValueError("Session ... not found"), which every tool
\* reports as it is.
SessionMissing(t, calls) ==
  /\ Idle(t)
  /\ LockFree
  /\ \E c \in calls :
       /\ LibraryCheck(c) = None
       /\ ~GetFinds(c.session_id)
       /\ Done(t, c, ErrorResponse(SessionNotFound(c.session_id)), << >>)
  /\ UNCHANGED <<avail, sessions, heap, lock, now>>

\* get_session returning the session with the lock still held.
GetSessionHolds(t) == t

\* get_session returns: its "with self.lock" block is left, so no thread
\* holds the lock while the tool works on the session.
GetSessionExit(t) == None

\* The session a tool works on: manager.get_session(session_id), under the
\* lock, for an id that is registered.
Held(t, c) ==
  /\ Idle(t)
  /\ LockFree
  /\ LibraryCheck(c) = None
  /\ GetFinds(c.session_id)

\* execute_code: the session is looked up; the lock is free again when
\* get_session has returned.
ExecEnter(t, calls) ==
  /\ \E c \in calls :
       /\ Held(t, c)
       /\ now < horizon
       /\ pc' = [pc EXCEPT ![t] = "exec_run"]
       /\ call' = [call EXCEPT ![t] = c]
       /\ ref' = [ref EXCEPT ![t] = sessions[c.session_id]]
  /\ lock' = GetSessionExit(t)
  /\ UNCHANGED <<avail, sessions, heap, now, resp, io, loc>>

\* A capture that the capture_output argument switches off.
CapturedOnRequest(c, text) ==
  IF c.expression_only \/ ~c.capture_output THEN "" ELSE text

\* A capture in both modes.
CapturedAlways(c, text) == text

\* What the call keeps of a text the cell printed: execute runs the cell
\* inside "with capture_output() as captured" whatever the capture_output
\* argument of execute_code is; execute_expression_only captures nothing and
\* reports "".
Captured(c, text) == IF c.expression_only THEN "" ELSE text

\* execute / execute_expression_only, up to the return of shell.run_cell:
\* last_used is set and the cell runs in the session's namespace.
ExecRun(t) ==
  /\ pc[t] = "exec_run"
  /\ Tick
  /\ LET o   == ref[t]
         out == RunCell(heap[o].ns, call[t].code)
     IN /\ heap' = SetNs([heap EXCEPT ![o].last_used = now], o, out.ns)
        /\ loc' = [loc EXCEPT ![t] =
                     [tag |-> "exec",
                      printed |-> out.stdout,
                      stdout |-> Captured(call[t], out.stdout),
                      stderr |-> Captured(call[t], out.stderr),
                      result |-> out.result,
                      error_in_exec |-> out.error_in_exec,
                      error_before_exec |-> out.error_before_exec,
                      formatted |-> None,
                      count |-> 0]]
  /\ pc' = [pc EXCEPT ![t] = "exec_count"]
  /\ UNCHANGED <<avail, sessions, lock, call, ref, io, resp>>

\* self.execution_count += 1, the read.
ExecLoadCount(t) ==
  /\ pc[t] = "exec_count"
  /\ loc' = [loc EXCEPT ![t].count = heap[ref[t]].execution_count]
  /\ pc' = [pc EXCEPT ![t] = "exec_store"]
  /\ UNCHANGED <<avail, sessions, heap, lock, now, call, ref, io, resp>>

\* A success flag that counts an error before the execution as a failure, as
\* the success property of IPython's ExecutionResult does.
ShellSuccess(result) ==
  result.error_in_exec = None /\ result.error_before_exec = None

\* success = not bool(execution_result.error_in_exec)
ExecSuccess(result) == result.error_in_exec = None

\* error_msg: None, or the text of execution_result.error_in_exec.
ErrorMsg(result) ==
  IF result.error_in_exec # None THEN result.error_in_exec ELSE None

\* A history that drops its newest entries.
TrimNewest(history) ==
  IF Len(history) > HistoryLimit THEN SubSeq(history, 1, HistoryLimit) ELSE history

\* if len(self.history) > 100: self.history = self.history[-100:]
Trim(history) == Last(history, HistoryLimit)

\* self.execution_count += 1, the write, and execute up to
\* self.history.append(history_entry): the result is formatted and the entry
\* is appended.  When formatting raises, the "except" of execute returns a
\* failure with the counter as it is and the history is left as it was;
\* execute_code copies the ExecutionResult into its response.
ExecFinish(t) ==
  /\ pc[t] = "exec_store"
  /\ LET o      == ref[t]
         l      == loc[t]
         c      == call[t]
         n      == l.count + 1
         text   == FormatResult(heap[o].ns, l.result)
         entry  == [execution_count |-> n, timestamp |-> heap[o].last_used,
                    code |-> c.code, success |-> ExecSuccess(l),
                    stdout |-> l.stdout, stderr |-> l.stderr,
                    result |-> text, error |-> ErrorMsg(l)]
     IN IF text = Raised
          THEN /\ heap' = Collect([heap EXCEPT ![o].execution_count = n],
                                  sessions, [ref EXCEPT ![t] = 0])
               /\ Done(t, c,
                       [success |-> FALSE, execution_count |-> n, stdout |-> "",
                        stderr |-> "", result |-> None,
                        error |-> "exec error: __repr__ raised"],
                       << >>)
          ELSE /\ heap' = [heap EXCEPT ![o].execution_count = n,
                                       ![o].history = Append(@, entry)]
               /\ loc' = [loc EXCEPT ![t].formatted = text]
               /\ pc' = [pc EXCEPT ![t] = "exec_trim"]
               /\ UNCHANGED <<call, ref, io, resp>>
  /\ UNCHANGED <<avail, sessions, lock, now>>

\* The rest of execute: a history of more than 100 entries is cut to its
\* last 100, and the ExecutionResult is returned with the counter as the
\* session has it now; execute_code copies it into its response.
ExecTrim(t) ==
  /\ pc[t] = "exec_trim"
  /\ LET o == ref[t]
         l == loc[t]
     IN /\ heap' = Collect([heap EXCEPT ![o].history = Trim(@)],
                           sessions, [ref EXCEPT ![t] = 0])
        /\ Done(t, call[t],
                [success |-> ExecSuccess(l),
                 execution_count |-> heap[o].execution_count,
                 stdout |-> l.stdout, stderr |-> l.stderr,
                 result |-> l.formatted, error |-> ErrorMsg(l)],
                << >>)
  /\ UNCHANGED <<avail, sessions, lock, now>>

\* An entry without its output.
StripOutput(entry) ==
  [k \in DOMAIN entry \ {"stdout", "stderr", "result"} |-> entry[k]]

\* session.history[-limit:] without the test of limit: what the slice alone
\* gives for a limit below zero.
RecentSlice(history, limit) ==
  IF limit > 0 THEN Last(history, limit)
  ELSE IF -limit < Len(history) THEN SubSeq(history, 1 - limit, Len(history))
  ELSE IF limit = 0 THEN history ELSE << >>

\* session.history[-limit:] if limit > 0 else session.history
Recent(history, limit) == IF limit > 0 THEN Last(history, limit) ELSE history

\* get_execution_history
GetHistory(t, calls) ==
  /\ \E c \in calls :
       /\ Held(t, c)
       /\ LET s == heap[sessions[c.session_id]]
              h == Recent(s.history, c.limit)
          IN Done(t, c,
                  [success |-> TRUE,
                   history |-> IF c.include_output THEN h
                               ELSE [i \in DOMAIN h |-> StripOutput(h[i])],
                   total_executions |-> Len(s.history)],
                  << >>)
  /\ UNCHANGED <<avail, sessions, heap, lock, now>>

\* The DataLoader reads the clock (start_time = time.time()) once it has
\* seen that the file exists.
Timed(tool, path) == Exists(path) /\ (tool = "load_excel_file" => avail.excel)

\* load_csv_file, load_excel_file, load_json_file: the DataLoader reads the
\* file, then the DataFrame is bound in the session's namespace.
\* FileNotFoundError and ValueError are reported by their message, any
\* other exception with the tool's prefix.
LoadFile(t, calls) ==
  /\ \E c \in calls :
       /\ Held(t, c)
       /\ IF Timed(c.tool, c.file_path) THEN Tick ELSE now' = now
       /\ LET o == sessions[c.session_id]
              r == DataLoader(c.tool, c.file_path)
              k == AutoCounter(Stem(c.file_path), DOMAIN heap[o].ns)
              name == IF c.variable_name = None THEN AutoVarName(Stem(c.file_path), k)
                                                ELSE c.variable_name
          IN IF r.ok
               THEN /\ c.variable_name = None => k <= MaxAutoName
                    /\ heap' = SetNs(heap, o, Bind(heap[o].ns, name, "DataFrame"))
                    /\ Done(t, c, [success |-> TRUE, variable_name |-> name, columns |-> <<"a">>], r.io)
               ELSE /\ heap' = heap
                    /\ Done(t, c,
                            ErrorResponse(IF r.exc \in {"FileNotFoundError", "ValueError"}
                                            THEN r.msg ELSE LoadFailure(c.tool, r.msg)),
                            r.io)
  /\ UNCHANGED <<avail, sessions, lock>>

\* hasattr(value, attr) for a value of the given type.
HasAttr(type, attr) ==
  CASE attr \in {"shape", "dtypes", "columns", "describe"} -> type = "DataFrame"
    [] attr = "__module__" -> type \in {"DataFrame", "type"}
    [] OTHER -> FALSE

\* The response of an inspection tool for the session s.
Inspect(c, s) ==
  LET v     == c.variable_name
      type  == s.ns[v]
      noVar == ErrorResponse("Variable '" \o v \o "' not found in session")
      noDf  == ErrorResponse("Variable '" \o v \o "' is not a DataFrame")
      okVar == [success |-> TRUE, variable_name |-> v]
  IN CASE c.tool = "get_session_status" ->
            [success |-> TRUE,
             session_info |-> [session_id |-> c.session_id, status |-> "active",
                               created_at |-> s.created_at, last_used |-> s.last_used,
                               execution_count |-> s.execution_count]]
       [] c.tool = "list_dataframes" ->
            [success |-> TRUE,
             dataframes |-> {n \in DOMAIN s.ns : s.ns[n] = "DataFrame"}]
       [] c.tool = "check_memory_usage" ->
            [success |-> TRUE, session_id |-> c.session_id]
       [] v \notin DOMAIN s.ns -> noVar
       [] c.tool = "get_variable_info" -> [success |-> TRUE, variable_name |-> v, type |-> type]
       [] c.tool = "get_dataframe_info" ->
            IF HasAttr(type, "shape") /\ HasAttr(type, "dtypes") THEN okVar ELSE noDf
       [] c.tool = "get_dataframe_summary" ->
            IF HasAttr(type, "describe") THEN okVar ELSE noDf
       [] c.tool = "preview_dataframe" ->
            IF ~HasAttr(type, "shape") THEN noDf
            ELSE IF c.method \notin {"head", "tail", "sample"}
              THEN ErrorResponse("Invalid method '" \o c.method \o "'. Use 'head', 'tail', or 'sample'")
              ELSE okVar
       [] OTHER ->   \* sample_column_data
            IF ~(HasAttr(type, "shape") /\ HasAttr(type, "columns")) THEN noDf
            ELSE IF c.column_name # "a"
              THEN ErrorResponse("Column '" \o c.column_name \o "' not found in DataFrame. Available columns: ['a']")
            ELSE IF c.method \notin {"head", "tail", "random", "unique", "mixed"}
              THEN ErrorResponse("Invalid method '" \o c.method \o "'. Use 'head', 'tail', 'random', 'unique', or 'mixed'")
              ELSE okVar

\* The inspection tools: they read the session.
InspectSession(t, calls) ==
  /\ \E c \in calls :
       /\ Held(t, c)
       /\ Done(t, c, Inspect(c, heap[sessions[c.session_id]]), << >>)
  /\ UNCHANGED <<avail, sessions, heap, lock, now>>

\* clear_variables with clear_all: the names it deletes.  With keep_imports
\* a variable is kept when it has a __module__ attribute and the name of its
\* type contains "module".
ClearAllNames(ns, keep_imports) ==
  {n \in DOMAIN ns : ~(keep_imports /\ HasAttr(ns[n], "__module__") /\ ns[n] = "module")}

\* clear_variables with variable_names: the names it deletes.
ClearNames(ns, variable_names) == Range(variable_names) \cap DOMAIN ns

\* clear_variables
ClearVariables(t, calls) ==
  /\ \E c \in calls :
       /\ Held(t, c)
       /\ LET o == sessions[c.session_id]
              ns == heap[o].ns
              cleared == IF c.clear_all THEN ClearAllNames(ns, c.keep_imports)
                                        ELSE ClearNames(ns, c.variable_names)
              left == [n \in DOMAIN ns \ cleared |-> ns[n]]
          IN IF ~c.clear_all /\ c.variable_names = << >>
               THEN /\ heap' = heap
                    /\ Done(t, c, ErrorResponse("Must specify either variable_names or set clear_all=True"), << >>)
               ELSE /\ heap' = SetNs(heap, o, left)
                    /\ Done(t, c,
                            [success |-> TRUE, cleared_variables |-> cleared,
                             remaining_variables |-> Cardinality(DOMAIN left)],
                            << >>)
  /\ UNCHANGED <<avail, sessions, lock, now>>

\* The caller takes the response; the thread is free for its next call.
Return(t) ==
  /\ pc[t] = "done"
  /\ pc' = [pc EXCEPT ![t] = "idle"]
  /\ call' = [call EXCEPT ![t] = NoCall]
  /\ resp' = [resp EXCEPT ![t] = NoResp]
  /\ io' = [io EXCEPT ![t] = << >>]
  /\ UNCHANGED <<avail, sessions, heap, lock, now, ref, loc>>

(* -------------------------- specifications ---------------------------- *)

EmptyMap == [k \in {} |-> 0]

InitUntil(envs, end) ==
  /\ avail \in envs
  /\ sessions = EmptyMap
  /\ heap = EmptyMap
  /\ lock = None
  /\ now = 0
  /\ pc = [t \in Threads |-> "idle"]
  /\ call = [t \in Threads |-> NoCall]
  /\ ref = [t \in Threads |-> 0]
  /\ loc = [t \in Threads |-> NoLoc]
  /\ io = [t \in Threads |-> << >>]
  /\ resp = [t \in Threads |-> NoResp]
  /\ deleted = {}
  /\ horizon = end

InitWith(envs) == InitUntil(envs, MaxTime)

\* The steps of a call.
Continue(t) ==
  \/ CreateInsert(t)
  \/ DeleteRemove(t)
  \/ ExecRun(t)
  \/ ExecLoadCount(t)
  \/ ExecFinish(t)
  \/ ExecTrim(t)
  \/ Return(t)

\* Thread t ends its call at this step: call'[t] and resp'[t] are the call
\* and the dictionary it returns.
Completes(t) == pc[t] # "done" /\ pc'[t] = "done"

Succeeds(t, tool) == Completes(t) /\ call'[t].tool = tool /\ resp'[t].success

\* The history variable follows the responses: a successful delete adds its
\* id, a successful create takes its id away.
Track ==
  deleted' =
    IF \E t \in Threads : Succeeds(t, "delete_ipython_session")
      THEN deleted \cup {call'[t].session_id : t \in {u \in Threads : Succeeds(u, "delete_ipython_session")}}
    ELSE IF \E t \in Threads : Succeeds(t, "create_ipython_session")
      THEN deleted \ {resp'[t].session_id : t \in {u \in Threads : Succeeds(u, "create_ipython_session")}}
    ELSE deleted

\* One caller: the tool calls come one after the other, in any environment.
Init == InitWith(EnvConfigs)

Serve(t) ==
  \/ CreateUnavailable(t, CreateCalls)
  \/ CreateEnter(t, CreateCalls)
  \/ DeleteEnter(t, DeleteCalls)
  \/ ListSessions(t)
  \/ LibraryMissing(t, LoadCalls)
  \/ SessionMissing(t, SessionCalls)
  \/ ExecEnter(t, ExecCalls)
  \/ GetHistory(t, HistoryCalls)
  \/ LoadFile(t, LoadCalls)
  \/ InspectSession(t, InspectCalls)
  \/ ClearVariables(t, ClearCalls)
  \/ Continue(t)

Next == (\E t \in {"t1"} : Serve(t)) /\ UNCHANGED <<deleted, horizon>>

Spec == Init /\ [][Next]_vars

\* The same caller, with the history of the deletions.
NextDel == (\E t \in {"t1"} : Serve(t)) /\ Track /\ UNCHANGED horizon

SpecDel == Init /\ [][NextDel]_vars

\* Two callers, everything installed: creations, deletions, listings and
\* executions run concurrently.
FullEnv == {e \in EnvConfigs : e.ipython /\ e.pandas /\ e.excel}

InitConc == InitWith(FullEnv)

ServeConc(t) ==
  \/ CreateEnter(t, ConcCreateCalls)
  \/ DeleteEnter(t, ConcDeleteCalls)
  \/ ListSessions(t)
  \/ SessionMissing(t, ConcExecCalls)
  \/ ExecEnter(t, ConcExecCalls)
  \/ Continue(t)

NextConc == (\E t \in Threads : ServeConc(t)) /\ UNCHANGED <<deleted, horizon>>

SpecConc == InitConc /\ [][NextConc]_vars

\* One caller and one session, everything installed: the cells are run in
\* both modes and with both values of capture_output.
ServeExec(t) ==
  \/ CreateEnter(t, ConcCreateCalls)
  \/ CreateInsert(t)
  \/ SessionMissing(t, ExecModeCalls)
  \/ ExecEnter(t, ExecModeCalls)
  \/ ExecRun(t)
  \/ ExecLoadCount(t)
  \/ ExecFinish(t)
  \/ ExecTrim(t)
  \/ Return(t)

NextExec == (\E t \in {"t1"} : ServeExec(t)) /\ UNCHANGED <<deleted, horizon>>

SpecExec == InitConc /\ [][NextExec]_vars

\* One caller and one session, followed until the history has been full for
\* MaxTime readings of the clock: the session is created, the assignment is
\* executed again and again, and the history is read.
InitHist == InitUntil(FullEnv, HistoryLimit + MaxTime)

ServeHist(t) ==
  \/ CreateEnter(t, ConcCreateCalls)
  \/ CreateInsert(t)
  \/ SessionMissing(t, HistExecCalls \cup HistQueryCalls)
  \/ ExecEnter(t, HistExecCalls)
  \/ ExecRun(t)
  \/ ExecLoadCount(t)
  \/ ExecFinish(t)
  \/ ExecTrim(t)
  \/ GetHistory(t, HistQueryCalls)
  \/ Return(t)

NextHist == (\E t \in {"t1"} : ServeHist(t)) /\ UNCHANGED <<deleted, horizon>>

SpecHist == InitHist /\ [][NextHist]_vars

\* Two runs side by side: "t1" works on the session "s1" and "t2" on the
\* session "s2".  Both sessions are created the same way; every
\* execute_code call of "t1" is followed by the call of "t2" that differs
\* from it in capture_output only (and in the session it addresses), and
\* the next call of "t1" waits for it.  The clock is followed for MaxTime
\* such pairs.
Own(t) == IF t = "t1" THEN "s1" ELSE "s2"

TwinCreateCalls(t) ==
  [tool : {"create_ipython_session"}, session_id : {Own(t)}, auto_import : {FALSE}]

TwinExecCalls ==
  [tool : {"execute_code"}, session_id : {"s1"}, code : {"x = 1", "print(x); x"},
   capture_output : BOOLEAN, expression_only : BOOLEAN]

TwinOf(c) == [c EXCEPT !.session_id = "s2", !.capture_output = ~@]

InitTwin == InitUntil(FullEnv, 2 * MaxTime + 2)

TwinFirst ==
  /\ pc["t2"] = "idle"
  /\ "s2" \in DOMAIN sessions
  /\ ExecEnter("t1", TwinExecCalls)

TwinSecond ==
  /\ pc["t1"] = "done"
  /\ call["t1"].tool = "execute_code"
  /\ ExecEnter("t2", {TwinOf(call["t1"])})

TwinReturn(t) ==
  /\ call[t].tool = "execute_code" =>
       IF t = "t1" THEN pc["t2"] = "done" /\ call["t2"] = TwinOf(call["t1"])
                   ELSE pc["t1"] = "idle"
  /\ Return(t)

ServeTwin ==
  \/ \E t \in Threads : CreateEnter(t, TwinCreateCalls(t))
  \/ \E t \in Threads : CreateInsert(t)
  \/ TwinFirst
  \/ TwinSecond
  \/ \E t \in Threads : ExecRun(t)
  \/ \E t \in Threads : ExecLoadCount(t)
  \/ \E t \in Threads : ExecFinish(t)
  \/ \E t \in Threads : ExecTrim(t)
  \/ \E t \in Threads : TwinReturn(t)

NextTwin == ServeTwin /\ UNCHANGED <<deleted, horizon>>

SpecTwin == InitTwin /\ [][NextTwin]_vars

(* ------------------------------ claims -------------------------------- *)

\* The tools that take a session id and look the session up.
SessionScoped ==
  {"execute_code", "get_execution_history"} \cup LoadTools \cup SessionTools
  \cup VarTools \cup {"clear_variables"}

\* The session object o is as __init__ leaves it.
Fresh(s, auto_import) ==
  /\ s.execution_count = 0
  /\ s.history = << >>
  /\ s.ns = InitialNs(auto_import)
  /\ s.created_at = s.last_used

\* C1: a create_ipython_session that reports success returns an id that was
\* not registered before; at the return the registry maps the id to the
\* session object just constructed, an object no other id maps to, and
\* every entry the registry had is still there, with its object.  An id the
\* caller supplied is the id returned.
C1_CreateReturnsUniqueId ==
  [][\A t \in Threads :
       Succeeds(t, "create_ipython_session") =>
         LET id == resp'[t].session_id
         IN /\ id \notin DOMAIN sessions
            /\ call'[t].session_id # None => id = call'[t].session_id
            /\ call'[t].session_id = None => id \in {"session_" \o h : h \in UuidHex8}
            /\ id \in DOMAIN sessions'
            /\ sessions'[id] \notin DOMAIN heap
            /\ Fresh(heap'[sessions'[id]], call'[t].auto_import)
            /\ \A j \in DOMAIN sessions' \ {id} : sessions'[j] # sessions'[id]
            /\ DOMAIN sessions' = DOMAIN sessions \cup {id}
            /\ \A j \in DOMAIN sessions :
                  sessions'[j] = sessions[j] /\ heap'[sessions'[j]] = heap[sessions[j]]
    ]_vars

\* A create without a session_id has returned a generated id while another
\* session, which has executed code, is registered.
C1_Witness ==
  /\ pc["t1"] = "done"
  /\ call["t1"].tool = "create_ipython_session"
  /\ call["t1"].session_id = None
  /\ resp["t1"].success
  /\ resp["t1"].session_id = "session_a1b2c3d4"
  /\ \E j \in DOMAIN sessions \ {"session_a1b2c3d4"} : heap[sessions[j]].execution_count > 0

\* C2: delete_ipython_session with an id that is not registered returns
\* success False with the error 'Session <id> not found' and leaves the
\* registry and every session as they are; with a registered id it returns
\* success True and the registry loses that entry and no other, the
\* sessions that stay being as they were.
C2_DeleteUnknownNotFound ==
  [][\A t \in Threads :
       (Completes(t) /\ call'[t].tool = "delete_ipython_session") =>
         LET id == call'[t].session_id
         IN IF id \in DOMAIN sessions
              THEN /\ resp'[t].success
                   /\ DOMAIN sessions' = DOMAIN sessions \ {id}
                   /\ \A j \in DOMAIN sessions' :
                         sessions'[j] = sessions[j] /\ heap'[sessions'[j]] = heap[sessions[j]]
              ELSE /\ resp'[t] = [success |-> FALSE, error |-> "Session " \o id \o " not found"]
                   /\ UNCHANGED <<sessions, heap>>
    ]_vars

\* A delete of an id that is not registered has returned while a session
\* that has executed code is registered.
C2_Witness ==
  /\ pc["t1"] = "done"
  /\ call["t1"].tool = "delete_ipython_session"
  /\ call["t1"].session_id \notin DOMAIN sessions
  /\ ~resp["t1"].success
  /\ \E j \in DOMAIN sessions : heap[sessions[j]].execution_count > 0

\* C10: create_ipython_session with a caller-supplied id that is registered
\* returns success False with an error that says the session already exists;
\* no session object is constructed and the registry and every session stay
\* as they are.
C10_CreateExistingFails ==
  [][\A t \in Threads :
       (/\ Completes(t)
        /\ call'[t].tool = "create_ipython_session"
        /\ call'[t].session_id \in DOMAIN sessions) =>
         /\ resp'[t] = [success |-> FALSE,
                        error |-> "Failed to create session: Session "
                                   \o call'[t].session_id \o " already exists"]
         /\ UNCHANGED <<sessions, heap, now>>
    ]_vars

\* A create with the id of a session that has executed code has failed.
C10_Witness ==
  /\ pc["t1"] = "done"
  /\ call["t1"].tool = "create_ipython_session"
  /\ call["t1"].session_id \in DOMAIN sessions
  /\ ~resp["t1"].success
  /\ heap[sessions[call["t1"].session_id]].history # << >>

\* The libraries the tool needs are installed: pandas for the load tools
\* and an Excel engine for load_excel_file.
LibrariesInstalled(tool) ==
  /\ tool \in LoadTools => avail.pandas
  /\ tool = "load_excel_file" => avail.excel

\* The file is there and the parser of the tool rejects it.
Rejected(tool, path) ==
  Exists(path) /\ ~(tool = "load_csv_file" /\ Content(path) = "csv")

\* What C3 says of a load that ends, for the session object o.
LoadFailsCleanly(t, o) ==
  LET path == call'[t].file_path
  IN /\ ~Exists(path) =>
          resp'[t] = [success |-> FALSE, error |-> "File not found: " \o path]
     /\ Rejected(call'[t].tool, path) =>
          ~resp'[t].success /\ resp'[t].error # None
     /\ (~Exists(path) \/ Rejected(call'[t].tool, path)) =>
          heap'[o].ns = heap[o].ns /\ UNCHANGED <<sessions, heap>>

\* C3 (as stated): for a registered session, a load tool called with a path
\* that does not exist returns success False with the file-not-found error,
\* called with a file its parser rejects it returns success False with an
\* error string, and in both cases the namespace of the session is as it was.
C3_LoadFailureAsStated ==
  [][\A t \in Threads :
       (/\ Completes(t)
        /\ call'[t].tool \in LoadTools
        /\ call'[t].session_id \in DOMAIN sessions) =>
         LoadFailsCleanly(t, sessions[call'[t].session_id])
    ]_vars

\* C3 (amended): the same, for a tool whose libraries are installed: pandas
\* and, for load_excel_file, an Excel engine.  (Without them the tool returns
\* its "not available" error whatever the path is; the namespace is as it
\* was then too.)
C3_LoadFailureReported ==
  [][\A t \in Threads :
       (/\ Completes(t)
        /\ call'[t].tool \in LoadTools
        /\ call'[t].session_id \in DOMAIN sessions) =>
         /\ LibrariesInstalled(call'[t].tool) =>
               LoadFailsCleanly(t, sessions[call'[t].session_id])
         /\ ~resp'[t].success => UNCHANGED <<sessions, heap>>
    ]_vars

\* load_csv_file was to bind x, which the session has bound to an integer,
\* to a file the parser rejects: it has failed and x is the integer.
C3_Witness ==
  /\ pc["t1"] = "done"
  /\ call["t1"].tool = "load_csv_file"
  /\ call["t1"].session_id \in DOMAIN sessions
  /\ call["t1"].file_path = "ragged.dat"
  /\ call["t1"].variable_name = "x"
  /\ ~resp["t1"].success
  /\ "x" \in DOMAIN heap[sessions[call["t1"].session_id]].ns
  /\ heap[sessions[call["t1"].session_id]].ns["x"] = "int"

\* A file operation occurs twice among the operations of a call.
Retried(ops) == \E i, j \in DOMAIN ops : i < j /\ ops[i] = ops[j]

\* The two places where the DataLoader tries again: detect_encoding opens
\* the file with the next encoding, load_excel reads a file whose suffix is
\* neither .xlsx nor .xls with the next engine.
Fallback(c, op) ==
  \/ c.tool = "load_csv_file" /\ op = "open"
  \/ /\ c.tool = "load_excel_file"
     /\ op = "pd.read_excel"
     /\ Suffix(c.file_path) \notin {".xlsx", ".xls"}

\* The response is a dictionary with a boolean success and, when success is
\* False, an error that is a string.
Reported(r) ==
  /\ "success" \in DOMAIN r
  /\ r.success \in BOOLEAN
  /\ ~r.success => ("error" \in DOMAIN r /\ r.error # None)

InMutation(t) == pc[t] \in {"create_insert", "delete_del"}

\* C5: the membership test and the map update of a create or a delete are
\* one atomic step of the registry: one thread at most is between the two,
\* and the registry does not change while a thread is.  So a create
\* succeeds only for an id that is not registered when it stores it and
\* fails, with "already exists", only for one that is; a delete returns
\* True only for an id that is registered when it removes it and False,
\* reported as 'not found', only for one that is not.
C5_MapMutationSerialized ==
  [][/\ Cardinality({t \in Threads : InMutation(t)}) <= 1
     /\ \A t \in Threads :
          LET id == IF call'[t].tool = "create_ipython_session" /\ resp'[t].success
                      THEN resp'[t].session_id ELSE call'[t].session_id
          IN /\ (InMutation(t) /\ pc'[t] = pc[t]) => sessions' = sessions
             /\ Succeeds(t, "create_ipython_session") =>
                  /\ id \notin DOMAIN sessions
                  /\ DOMAIN sessions' = DOMAIN sessions \cup {id}
                  /\ sessions'[id] \notin DOMAIN heap
             /\ (Completes(t) /\ call'[t].tool = "create_ipython_session" /\ ~resp'[t].success) =>
                  /\ resp'[t].error = "Failed to create session: Session " \o id \o " already exists"
                  /\ id \in DOMAIN sessions
                  /\ sessions' = sessions
             /\ Succeeds(t, "delete_ipython_session") =>
                  /\ id \in DOMAIN sessions
                  /\ DOMAIN sessions' = DOMAIN sessions \ {id}
             /\ (Completes(t) /\ call'[t].tool = "delete_ipython_session" /\ ~resp'[t].success) =>
                  /\ resp'[t].error = "Session " \o id \o " not found"
                  /\ id \notin DOMAIN sessions
                  /\ sessions' = sessions
    ]_vars

\* Two creates with the same id: one has succeeded, the other has failed,
\* and the id is registered.
C5_Witness ==
  /\ pc["t1"] = "done" /\ pc["t2"] = "done"
  /\ call["t1"] = call["t2"]
  /\ call["t1"].tool = "create_ipython_session"
  /\ resp["t1"].success
  /\ ~resp["t2"].success
  /\ resp["t1"].session_id \in DOMAIN sessions

\* Thread t is inside IPythonSession.execute.
InExecute(t) == pc[t] \in {"exec_run", "exec_count", "exec_store", "exec_trim"}

\* C6: no thread holds the manager lock while it is inside execute: the
\* lock is free again when get_session has returned, and so the executions
\* of two threads on one session are not kept apart.
C6_NoLockInExecute ==
  \A t \in Threads : InExecute(t) => (lock # t /\ ref[t] \in DOMAIN heap)

\* Two execute_code calls on one session object have both read the same
\* execution_count and neither has written it back.
C6_Witness ==
  /\ pc["t1"] = "exec_store" /\ pc["t2"] = "exec_store"
  /\ ref["t1"] = ref["t2"]
  /\ call["t1"].session_id = call["t2"].session_id
  /\ loc["t1"].count = loc["t2"].count
  /\ loc["t1"].count = heap[ref["t1"]].execution_count

\* Thread t takes a step of a call of a session-scoped tool addressed to id.
StepOn(t, id) ==
  /\ pc'[t] # pc[t]
  /\ pc'[t] # "idle"
  /\ call'[t].tool \in SessionScoped
  /\ call'[t].session_id = id

\* C7: a step of a call of a session-scoped tool addressed to the session A
\* leaves every other registered session B registered, with the same object,
\* and that object's namespace, history, execution_count, created_at and
\* last_used as they were.
C7_SessionsIsolated ==
  [][\A t \in Threads : \A A, B \in DOMAIN sessions :
       (A # B /\ StepOn(t, A)) =>
         /\ B \in DOMAIN sessions'
         /\ sessions'[B] = sessions[B]
         /\ heap'[sessions[B]].ns = heap[sessions[B]].ns
         /\ heap'[sessions[B]].history = heap[sessions[B]].history
         /\ heap'[sessions[B]].execution_count = heap[sessions[B]].execution_count
         /\ heap'[sessions[B]].created_at = heap[sessions[B]].created_at
         /\ heap'[sessions[B]].last_used = heap[sessions[B]].last_used
    ]_vars

\* A cell that binds x has run in one session; another session is
\* registered, has no x and has executed nothing.
C7_Witness ==
  /\ pc["t1"] = "done"
  /\ call["t1"].tool = "execute_code"
  /\ call["t1"].code = "x = 1"
  /\ resp["t1"].success
  /\ call["t1"].session_id \in DOMAIN sessions
  /\ "x" \in DOMAIN heap[sessions[call["t1"].session_id]].ns
  /\ \E B \in DOMAIN sessions \ {call["t1"].session_id} :
        /\ "x" \notin DOMAIN heap[sessions[B]].ns
        /\ heap[sessions[B]].execution_count = 0

\* What a call of a session-scoped tool returns for an id with no session.
NotFoundResponse(id) == [success |-> FALSE, error |-> "Session " \o id \o " not found"]

\* C8 (as stated): an id deleted with success is not registered; every call
\* of a session-scoped tool with that id returns 'Session <id> not found'
\* until a create with the id succeeds, and the session of that create is
\* as __init__ leaves it: execution_count 0, no history, no user variable.
C8_DeletedNotFound ==
  [][/\ deleted \cap DOMAIN sessions = {}
     /\ \A t \in Threads :
          /\ (/\ Completes(t)
              /\ call'[t].tool \in SessionScoped
              /\ call'[t].session_id \in deleted) =>
                resp'[t] = NotFoundResponse(call'[t].session_id)
          /\ (Succeeds(t, "create_ipython_session") /\ resp'[t].session_id \in deleted) =>
                Fresh(heap'[sessions'[resp'[t].session_id]], call'[t].auto_import)
    ]_vars

\* C8 (amended): the same, but a load tool whose libraries are not installed
\* fails with its "not available" error and not with 'Session <id> not
\* found'.
C8_DeletedDiscarded ==
  [][/\ deleted \cap DOMAIN sessions = {}
     /\ \A t \in Threads :
          /\ (/\ Completes(t)
              /\ call'[t].tool \in SessionScoped
              /\ call'[t].session_id \in deleted) =>
                /\ LibrariesInstalled(call'[t].tool) =>
                      resp'[t] = NotFoundResponse(call'[t].session_id)
                /\ ~resp'[t].success
                /\ UNCHANGED <<sessions, heap>>
          /\ (Succeeds(t, "create_ipython_session") /\ resp'[t].session_id \in deleted) =>
                Fresh(heap'[sessions'[resp'[t].session_id]], call'[t].auto_import)
    ]_vars

\* execute_code has been called with an id that was deleted and has found
\* no session.
C8_Witness ==
  /\ pc["t1"] = "done"
  /\ call["t1"].tool = "execute_code"
  /\ call["t1"].session_id \in deleted
  /\ resp["t1"] = NotFoundResponse(call["t1"].session_id)

\* C9 (as stated): a call of a session-scoped tool with an id that is not
\* registered returns 'Session <id> not found', has touched no file, run no
\* code, created no session and changed nothing.
C9_LookupFirst ==
  [][\A t \in Threads :
       (/\ Completes(t)
        /\ call'[t].tool \in SessionScoped
        /\ call'[t].session_id \notin DOMAIN sessions) =>
          /\ resp'[t] = NotFoundResponse(call'[t].session_id)
          /\ io'[t] = << >>
          /\ UNCHANGED <<sessions, heap, now>>
    ]_vars

\* C9 (amended): the same, but a load tool tests its libraries before it
\* looks the session up: without them it fails with its "not available"
\* error, and it too has touched no file and changed nothing.
C9_LookupBeforeWork ==
  [][\A t \in Threads :
       (/\ Completes(t)
        /\ call'[t].tool \in SessionScoped
        /\ call'[t].session_id \notin DOMAIN sessions) =>
          /\ LibrariesInstalled(call'[t].tool) =>
                resp'[t] = NotFoundResponse(call'[t].session_id)
          /\ ~resp'[t].success
          /\ io'[t] = << >>
          /\ UNCHANGED <<sessions, heap, now>>
    ]_vars

\* load_csv_file, with pandas installed, was called with an id that is not
\* registered and a path that does not exist, while another session is
\* registered: it reports the session.
C9_Witness ==
  /\ pc["t1"] = "done"
  /\ call["t1"].tool = "load_csv_file"
  /\ call["t1"].file_path = "missing.csv"
  /\ call["t1"].session_id \notin DOMAIN sessions
  /\ avail.pandas
  /\ DOMAIN sessions # {}
  /\ resp["t1"] = NotFoundResponse(call["t1"].session_id)

\* Thread t ends a call of execute_code that ran its cell: loc[t] holds the
\* ExecutionResult of shell.run_cell.
ExecCompletes(t) ==
  /\ Completes(t)
  /\ call'[t].tool = "execute_code"
  /\ pc[t] \in {"exec_store", "exec_trim"}

\* The cell of thread t did not run to completion without error: the shell
\* reported an error before the execution or in it.
CellFailed(t) ==
  loc[t].error_in_exec # None \/ loc[t].error_before_exec # None

\* C11: whenever the cell submitted to execute_code does not run to
\* completion without error, be the error reported before the execution (a
\* syntax error) or in it (an exception), the response has success False and
\* an error message that is not null.
C11_FailedCellReported ==
  [][\A t \in Threads :
       (ExecCompletes(t) /\ CellFailed(t))
         => (~resp'[t].success /\ resp'[t].error # None)]_vars

\* C12: in every response of execute_code success is True exactly when
\* error is null, and so it is in every entry of a session's history.
C12_SuccessIffNoError ==
  /\ \A t \in Threads :
       (pc[t] = "done" /\ call[t].tool = "execute_code")
         => (resp[t].success <=> resp[t].error = None)
  /\ \A o \in DOMAIN heap : \A i \in DOMAIN heap[o].history :
       heap[o].history[i].success <=> heap[o].history[i].error = None

\* An execute_code call has returned a failure with its message after one
\* that succeeded, and the history holds the entries of both.
C12_Witness ==
  /\ pc["t1"] = "done" /\ call["t1"].tool = "execute_code"
  /\ ~resp["t1"].success /\ resp["t1"].error = "name 'x' is not defined"
  /\ \E o \in DOMAIN heap :
       /\ Len(heap[o].history) = 2
       /\ heap[o].history[1].success /\ heap[o].history[1].error = None
       /\ ~heap[o].history[2].success
       /\ heap[o].history[2].error = "name 'x' is not defined"

\* C13: the 'auto_imported' list of a successful create_ipython_session is
\* [pandas, numpy, json, os, sys, pathlib] when auto_import is True and the
\* import cell ran without error in the new session (it bound pd), and it is
\* empty when auto_import is False or the import cell failed.
C13_AutoImportedAsRun ==
  [][\A t \in Threads :
       Succeeds(t, "create_ipython_session")
         => LET s == heap'[sessions'[resp'[t].session_id]]
            IN resp'[t].auto_imported =
                 IF call'[t].auto_import /\ "pd" \in DOMAIN s.ns
                   THEN <<"pandas", "numpy", "json", "os", "sys", "pathlib">>
                   ELSE << >>]_vars

\* C14: the 'total_executions' of a successful get_execution_history is the
\* number of executions performed in the session so far, its
\* execution_count, also when that is more than 100.
C14_TotalIsExecutionCount ==
  \A t \in Threads :
    (pc[t] = "done" /\ call[t].tool = "get_execution_history" /\ resp[t].success)
      => resp[t].total_executions
           = heap[sessions[call[t].session_id]].execution_count

\* The number of entries get_execution_history is to return of n stored ones.
Asked(limit, n) == IF limit > 0 THEN (IF limit < n THEN limit ELSE n) ELSE n

\* C15: a successful get_execution_history returns, for limit > 0, the
\* min(limit, number of stored entries) most recent entries in their order,
\* and for limit <= 0 every stored entry; with include_output False each
\* returned entry has the keys of the stored one but stdout, stderr and
\* result, with their values.
C15_HistoryWindow ==
  \A t \in Threads :
    (pc[t] = "done" /\ call[t].tool = "get_execution_history" /\ resp[t].success)
      => LET stored == heap[sessions[call[t].session_id]].history
             k      == Asked(call[t].limit, Len(stored))
             got    == resp[t].history
         IN /\ Len(got) = k
            /\ \A i \in 1..k :
                 LET e == stored[Len(stored) - k + i]
                 IN IF call[t].include_output
                      THEN got[i] = e
                      ELSE /\ DOMAIN got[i] = DOMAIN e \ {"stdout", "stderr", "result"}
                           /\ \A key \in DOMAIN got[i] : got[i][key] = e[key]

\* The history of a session that holds HistoryLimit entries has been read
\* with limit 3 and without the output: the three newest entries came back.
C15_Witness ==
  /\ pc["t1"] = "done" /\ call["t1"].tool = "get_execution_history"
  /\ resp["t1"].success
  /\ call["t1"].limit = 3 /\ ~call["t1"].include_output
  /\ Len(heap[sessions["s1"]].history) = HistoryLimit
  /\ Len(resp["t1"].history) = 3
  /\ resp["t1"].history[3].execution_count = heap[sessions["s1"]].execution_count
  /\ "stdout" \notin DOMAIN resp["t1"].history[3]

\* The bookkeeping of an execute_code call that thread t ends, whatever its
\* mode: the counter is one more than the call read and the response
\* carries it, the response carries the formatted result and the message
\* of the error, and, unless formatting raised, the newest entry of the
\* history records the call as the response reports it.
Bookkeeping(t) ==
  LET s == heap'[sessions'[call'[t].session_id]]
      r == resp'[t]
  IN /\ s.execution_count = loc[t].count + 1
     /\ r.execution_count = s.execution_count
     /\ pc[t] = "exec_trim" =>
          /\ r.result = loc[t].formatted
          /\ r.error = loc[t].error_in_exec
          /\ Len(s.history) > 0
          /\ LET e == s.history[Len(s.history)]
             IN /\ e.execution_count = r.execution_count
                /\ e.code = call'[t].code
                /\ e.success = r.success /\ e.error = r.error
                /\ e.result = r.result
                /\ e.stdout = r.stdout /\ e.stderr = r.stderr

\* C16: an execute_code call with expression_only True returns stdout ''
\* and stderr '' whatever the cell prints, and the entry it appends has
\* them empty too; the result, the error, the counter and the history are
\* kept as in the full mode.
C16_ExpressionOnlyNoOutput ==
  [][\A t \in Threads :
       ExecCompletes(t)
         => /\ Bookkeeping(t)
            /\ call'[t].expression_only
                 => (resp'[t].stdout = "" /\ resp'[t].stderr = "")]_vars

\* A cell that prints "1" and has the value 1 has been run with
\* expression_only: the response and the entry have the result and no output.
C16_Witness ==
  /\ pc["t1"] = "done" /\ call["t1"].tool = "execute_code"
  /\ call["t1"].expression_only /\ call["t1"].code = "print(x); x"
  /\ resp["t1"].success /\ resp["t1"].result = "1"
  /\ resp["t1"].stdout = "" /\ resp["t1"].stderr = ""
  /\ LET h == heap[sessions["s1"]].history
     IN /\ Len(h) = 2
        /\ h[2].code = "print(x); x" /\ h[2].result = "1"
        /\ h[2].stdout = "" /\ h[2].stderr = ""

\* What a session holds apart from the times: its namespace, its counter
\* and its history without the timestamps.
Timeless(s) ==
  [ns |-> s.ns, execution_count |-> s.execution_count,
   history |-> [i \in DOMAIN s.history |->
                  [k \in DOMAIN s.history[i] \ {"timestamp"} |-> s.history[i][k]]]]

\* Both runs have ended a pair of execute_code calls that differ in
\* capture_output only.
TwinDone ==
  /\ pc["t1"] = "done" /\ pc["t2"] = "done"
  /\ call["t1"].tool = "execute_code" /\ call["t2"].tool = "execute_code"
  /\ call["t2"] = TwinOf(call["t1"])

\* C17: capture_output has no effect.  Two execute_code calls from the same
\* session state that differ in capture_output only return the same
\* response and leave the same session state, and in the full mode the
\* response carries what the cell printed whatever capture_output is.
C17_CaptureOutputIgnored ==
  [][/\ TwinDone' =>
          /\ resp'["t1"] = resp'["t2"]
          /\ Timeless(heap'[sessions'["s1"]]) = Timeless(heap'[sessions'["s2"]])
     /\ \A t \in Threads :
          (ExecCompletes(t) /\ pc[t] = "exec_trim" /\ ~call'[t].expression_only)
            => resp'[t].stdout = loc[t].printed]_vars

\* The printing cell has been run in the full mode with capture_output True
\* in one run and False in the other: both responses carry its output.
C17_Witness ==
  /\ TwinDone
  /\ call["t1"].capture_output # call["t2"].capture_output
  /\ call["t1"].code = "print(x); x" /\ ~call["t1"].expression_only
  /\ resp["t1"].success /\ resp["t2"].success
  /\ resp["t1"].stdout = "1\n" /\ resp["t2"].stdout = "1\n"
  /\ Len(heap[sessions["s2"]].history) = 2

\* C18: clear_variables with clear_all True and keep_imports True keeps the
\* variables bound to a module and removes every other one; with
\* keep_imports False it removes the module variables as well.
C18_KeepImportsKeepsModules ==
  [][\A t \in Threads :
       (Succeeds(t, "clear_variables") /\ call'[t].clear_all)
         => LET o == sessions[call'[t].session_id]
            IN DOMAIN heap'[o].ns =
                 IF call'[t].keep_imports
                   THEN {n \in DOMAIN heap[o].ns : heap[o].ns[n] = "module"}
                   ELSE {}]_vars

\* C19, as stated: in every reachable state a history has at most 100
\* entries, and after each completed execute_code call it holds, in the
\* order of execution, the min(n, 100) most recent of the n executions
\* completed in the session.
C19_HistoryBounded ==
  /\ \A o \in DOMAIN heap : Len(heap[o].history) <= HistoryLimit
  /\ \A t \in Threads :
       (pc[t] = "done" /\ call[t].tool = "execute_code"
          /\ call[t].session_id \in DOMAIN sessions)
         => LET s == heap[sessions[call[t].session_id]]
                n == s.execution_count
                k == IF n < HistoryLimit THEN n ELSE HistoryLimit
            IN /\ Len(s.history) = k
               /\ \A i \in 1..k : s.history[i].execution_count = n - k + i

\* C19, amended: a step changes a history by one entry added at its end
\* (the append of an execution) or, when it has more than 100 entries, by
\* cutting it to its last 100 (the truncation; the oldest entries go), and
\* an execution that ends with an error of its own adds nothing; a history
\* has at most 100 entries except between an append and its truncation.  An
\* execution that returns its result leaves its entry as the newest one.
C19_HistoryRing ==
  [][/\ \A o \in DOMAIN heap \cap DOMAIN heap' :
          LET h == heap[o].history
              g == heap'[o].history
          IN \/ g = h
             \/ Len(g) = Len(h) + 1 /\ SubSeq(g, 1, Len(h)) = h
             \/ /\ Len(h) > HistoryLimit
                /\ g = SubSeq(h, Len(h) - HistoryLimit + 1, Len(h))
     /\ \A o \in DOMAIN heap' :
          (\A t \in Threads : ~(pc'[t] = "exec_trim" /\ ref'[t] = o))
            => Len(heap'[o].history) <= HistoryLimit
     /\ \A t \in Threads :
          (ExecCompletes(t) /\ pc[t] = "exec_trim" /\ ref[t] \in DOMAIN heap')
            => LET g == heap'[ref[t]].history
               IN /\ Len(g) > 0
                  /\ g[Len(g)].code = call'[t].code
                  /\ g[Len(g)].execution_count = resp'[t].execution_count]_vars

\* The 102nd execution of a session has returned: the history holds the
\* entries of the executions 3 to 102.
C19_Witness ==
  /\ pc["t1"] = "done" /\ call["t1"].tool = "execute_code"
  /\ resp["t1"].success
  /\ resp["t1"].execution_count = HistoryLimit + 2
  /\ LET h == heap[sessions["s1"]].history
     IN /\ Len(h) = HistoryLimit
        /\ h[1].execution_count = 3
        /\ h[HistoryLimit].execution_count = HistoryLimit + 2
====
